---- MODULE Spec2Model ----
(***************************************************************************)
(* A model of book_shelf.py: the two metadata parsers (EPUB and FB2), the  *)
(* covers directory they write to, ZIP extraction with its temporary       *)
(* files, and the batch loop of main.                                      *)
(*                                                                         *)
(* Text is a sequence of one-character strings.  The character No stands   *)
(* for the numero sign U+2116 of the source; the Russian dictionary keys   *)
(* and placeholders of the source are transliterated:                      *)
(*   Oblozhka = cover, Nazvanie = title, Avtor = author, Seriya = series,  *)
(*   Zhanr = genre, Opisanie = description, Fayl = file.                   *)
(* A Python value that may be None is a record [isNone, s].                *)
(***************************************************************************)
EXTENDS Integers, Sequences, FiniteSets, TLC

VARIABLES
    covers,      \* the files of COVERS_DIR: cover file name -> [exists, data]
    before,      \* history: covers as it was when the last call began
    temps,       \* the temporary directories left by extract_from_zip that still exist
    ntemp,       \* how many temporary directories tempfile.mkdtemp has made
    call,        \* the last call of a parser or of process_file: its input
    result,      \* what that call returned: <<>> is None / [], else the records
    metadata,    \* main: the list of records collected so far
    nfiles,      \* main: how many directory entries the loop has visited
    pc,          \* main: "start", "collect", "collected", "done", "failed"
                 \* (a single parser call: "ready", "returned")
    exitReason,  \* main: why the run exited with status 1 ("none" if it did not)
    report       \* main: the records written to the output file

vars == <<covers, before, temps, ntemp, call, result, metadata, nfiles, pc, exitReason, report>>

-----------------------------------------------------------------------------
(* Bounds of the model *)

MaxAuthors == 2
MaxPayload == 4
MaxItems == 2
MaxEntries == 2
MaxFiles == 2

-----------------------------------------------------------------------------
(* Python values and strings *)

None == [isNone |-> TRUE, s |-> <<>>]
Str(s) == [isNone |-> FALSE, s |-> s]

\* bool(v) of None or a str
Truthy(v) == ~v.isNone /\ v.s # <<>>

\* a or b
Or(a, b) == IF Truthy(a) THEN a ELSE b

\* f"{v}": None formats as the word None
Format(v) == IF v.isNone THEN <<"N", "o", "n", "e">> ELSE v.s

Whitespace == {" "}

RECURSIVE LStrip(_, _)
LStrip(s, chars) ==
    IF s # <<>> /\ Head(s) \in chars THEN LStrip(Tail(s), chars) ELSE s

RECURSIVE RStrip(_, _)
RStrip(s, chars) ==
    IF s # <<>> /\ s[Len(s)] \in chars
    THEN RStrip(SubSeq(s, 1, Len(s) - 1), chars)
    ELSE s

\* str.strip(chars): both ends, any of the characters
Strip(s, chars) == RStrip(LStrip(s, chars), chars)

\* sep.join(list) for a list of strings
RECURSIVE Join(_, _)
Join(sep, list) ==
    IF list = <<>> THEN <<>>
    ELSE IF Len(list) = 1 THEN list[1]
    ELSE list[1] \o sep \o Join(sep, Tail(list))

StartsWith(s, prefix) ==
    Len(s) >= Len(prefix) /\ SubSeq(s, 1, Len(prefix)) = prefix

IsBlank(s) == Strip(s, Whitespace) = <<>>

CommaSpace == <<",", " ">>

-----------------------------------------------------------------------------
(* The placeholders of the two parsers *)

BezNazvaniya == <<"B", "e", "z", " ", "n", "a", "z", "v", "a", "n", "i", "y", "a">>
Neizvesten == <<"N", "e", "i", "z", "v", "e", "s", "t", "e", "n">>
NetOpisaniya == <<"N", "e", "t", " ", "o", "p", "i", "s", "a", "n", "i", "y", "a">>

-----------------------------------------------------------------------------
(* The covers directory *)

NoFile == [exists |-> FALSE, data |-> <<>>]
File(data) == [exists |-> TRUE, data |-> data]

BaseNames == {"a.epub", "a.fb2", "b.fb2"}

\* a cover name that ignores the base name of the book
CoverPathFixed(path) == <<"covers", "cover_", "a.fb2", ".jpg">>

\* os.path.join(COVERS_DIR, f"cover_{os.path.basename(path)}.jpg")
CoverPath(path) == <<"covers", "cover_", path.base, ".jpg">>

CoverNames == {<<"covers", "cover_", b, ".jpg">> : b \in BaseNames}

\* open(cover_path, 'wb'): the file is created, or truncated when it exists
OpenWb(dir, name) == [dir EXCEPT ![name] = File(<<>>)]

\* f.write(data) on the file just opened, then close
WriteAll(dir, name, data) == [dir EXCEPT ![name] = File(data)]

-----------------------------------------------------------------------------
(* base64.b64decode(s) with validate=False, as binascii.a2b_base64 decodes:   *)
(* a character outside the alphabet is skipped, a pad that cannot end the    *)
(* data is skipped, a pad sequence completing a quad ends the decoding, and  *)
(* data left in an incomplete quad is an error.  The decoded bytes are       *)
(* stood for by the data characters consumed.                                *)

B64Alphabet == {"A", "B"}
B64Pad == "="

RECURSIVE B64Scan(_, _, _, _, _)
B64Scan(text, i, quad, pads, out) ==
    IF i > Len(text) THEN [ok |-> quad = 0, data |-> IF quad = 0 THEN out ELSE <<>>]
    ELSE IF text[i] = B64Pad
         THEN IF quad >= 2 /\ quad + pads + 1 >= 4
              THEN [ok |-> TRUE, data |-> out]
              ELSE B64Scan(text, i + 1, quad, IF quad >= 2 THEN pads + 1 ELSE pads, out)
    ELSE IF text[i] \notin B64Alphabet
         THEN B64Scan(text, i + 1, quad, pads, out)
    ELSE B64Scan(text, i + 1, (quad + 1) % 4, 0, Append(out, text[i]))

\* b64decode(None) raises TypeError
B64Decode(v) ==
    IF v.isNone THEN [ok |-> FALSE, data |-> <<>>]
    ELSE B64Scan(v.s, 1, 0, 0, <<>>)

-----------------------------------------------------------------------------
(* parse_fb2_metadata *)

\* what find() gave: no element, or an element with its .text
NoElement == [present |-> FALSE, text |-> None]
Element(text) == [present |-> TRUE, text |-> text]

get_text(element) == IF element.present THEN element.text ELSE Str(<<>>)

No == "No"
StripSet == {" ", "(", ")"}

Fb2Title(doc) == Or(get_text(doc.bookTitle), Str(BezNazvaniya))

Fb2AuthorFragment(a) ==
    Strip(Format(get_text(a.first)) \o <<" ">> \o Format(get_text(a.last)), Whitespace)

Fb2Author(doc) ==
    Or(Str(Join(CommaSpace,
                [i \in 1..Len(doc.authors) |-> Fb2AuthorFragment(doc.authors[i])])),
       Str(Neizvesten))

\* sequence.get('name') is None when the attribute is missing;
\* sequence.get('name', '') and .get('number', '') are '' then
AttrOr(v, default) == IF v.isNone THEN default ELSE v.s

\* the series built without asking whether the sequence has a name
Fb2SeriesUnguarded(doc) ==
    IF doc.sequence.present
    THEN Str(Strip(AttrOr(doc.sequence.name, <<>>) \o <<" ", "(", No>>
                   \o AttrOr(doc.sequence.number, <<>>) \o <<")">>, StripSet))
    ELSE Str(<<>>)

Fb2Series(doc) ==
    IF doc.sequence.present /\ Truthy(doc.sequence.name)
    THEN Str(Strip(AttrOr(doc.sequence.name, <<>>) \o <<" ", "(", No>>
                   \o AttrOr(doc.sequence.number, <<>>) \o <<")">>, StripSet))
    ELSE Str(<<>>)

Fb2Genre(doc) ==
    Str(Join(CommaSpace,
             [i \in 1..Len(SelectSeq(doc.genres, Truthy))
                |-> SelectSeq(doc.genres, Truthy)[i].s]))

Fb2Description(doc) ==
    IF doc.annotation.present
    THEN Str(Strip(doc.annotation.text, Whitespace))
    ELSE Str(NetOpisaniya)

CoverWord == <<"c", "o", "v", "e", "r">>

\* the first binary whose id starts with "cover": its index, 0 when there is none
RECURSIVE Fb2CoverIndex(_, _)
Fb2CoverIndex(binaries, i) ==
    IF i > Len(binaries) THEN 0
    ELSE IF StartsWith(AttrOr(binaries[i].id, <<>>), CoverWord) THEN i
    ELSE Fb2CoverIndex(binaries, i + 1)

\* ET.parse fails, or title-info is missing
Fb2Unreadable(doc) == ~doc.wellFormed \/ ~doc.hasTitleInfo

Fb2HasCover(doc) == ~Fb2Unreadable(doc) /\ Fb2CoverIndex(doc.binaries, 1) # 0

Fb2CoverDecoded(doc) == B64Decode(doc.binaries[Fb2CoverIndex(doc.binaries, 1)].text)

\* an exception reaches the except clause
Fb2Raises(doc) ==
    Fb2Unreadable(doc) \/ (Fb2HasCover(doc) /\ ~Fb2CoverDecoded(doc).ok)

\* the dictionary of the FB2 parser: it has no Fayl key
Fb2Record(path, doc) ==
    [Oblozhka |-> IF Fb2HasCover(doc) THEN Str(CoverPath(path)) ELSE None,
     Nazvanie |-> Fb2Title(doc),
     Avtor |-> Fb2Author(doc),
     Seriya |-> Fb2Series(doc),
     Zhanr |-> Fb2Genre(doc),
     Opisanie |-> Fb2Description(doc)]

\* the value returned: <<>> for None, <<record>> otherwise
parse_fb2_metadata(path, doc) ==
    IF Fb2Raises(doc) THEN <<>> ELSE <<Fb2Record(path, doc)>>

\* the covers directory after the call: the file is opened for writing before
\* the payload is decoded
Fb2CoversAfter(path, doc, dir) ==
    IF ~Fb2HasCover(doc) THEN dir
    ELSE IF Fb2CoverDecoded(doc).ok
         THEN WriteAll(OpenWb(dir, CoverPath(path)), CoverPath(path), Fb2CoverDecoded(doc).data)
         ELSE OpenWb(dir, CoverPath(path))

-----------------------------------------------------------------------------
(* parse_epub_metadata *)

\* get_metadata(field): the first value of the DC field, "" when there is none
get_metadata(values) == IF values # <<>> THEN values[1] ELSE Str(<<>>)

HasNone(values) == \E i \in 1..Len(values) : values[i].isNone

\* ", ".join([v[0] for v in values]); raises TypeError when a value is None
JoinValues(values) ==
    Str(Join(CommaSpace, [i \in 1..Len(values) |-> values[i].s]))

LowerChar(c) ==
    CASE c = "A" -> "a" [] c = "B" -> "b" [] c = "C" -> "c" [] c = "D" -> "d"
      [] c = "F" -> "f" [] c = "H" -> "h" [] c = "N" -> "n" [] OTHER -> c
Lower(s) == [i \in 1..Len(s) |-> LowerChar(s[i])]

Contains(s, sub) ==
    \E i \in 1..(Len(s) - Len(sub) + 1) : SubSeq(s, i, i + Len(sub) - 1) = sub

\* bool(t) of a tuple: true when it has an element
TupleTruthy(t) == Len(t) > 0

\* the condition of the generator: the second operand of "or" is the tuple
\* (hasattr(...) and 'cover' in name.lower(), None)
EpubCoverCondition(item) ==
    item.isImage \/ TupleTruthy(<<Contains(Lower(item.name), CoverWord), None>>)

\* next(...) without a default: the index of the first item passing the
\* condition, 0 when the generator is exhausted (StopIteration)
RECURSIVE EpubCoverIndex(_, _)
EpubCoverIndex(items, i) ==
    IF i > Len(items) THEN 0
    ELSE IF EpubCoverCondition(items[i]) THEN i
    ELSE EpubCoverIndex(items, i + 1)

\* an exception reaches the except clause: read_epub fails, a join meets a
\* None value, or next() raises StopIteration
EpubRaises(doc) ==
    \/ ~doc.readable
    \/ HasNone(doc.creator)
    \/ HasNone(doc.subject)
    \/ EpubCoverIndex(doc.items, 1) = 0

\* the dictionary of the EPUB parser; an item object is always true, so the
\* cover path is always set once next() has returned
EpubRecord(path, doc) ==
    [Oblozhka |-> Str(CoverPath(path)),
     Nazvanie |-> Or(get_metadata(doc.title), Str(BezNazvaniya)),
     Avtor |-> Or(JoinValues(doc.creator), Str(Neizvesten)),
     Seriya |-> Or(get_metadata(doc.series), Str(<<>>)),
     Zhanr |-> Or(JoinValues(doc.subject), Str(<<>>)),
     Opisanie |-> Or(get_metadata(doc.description), Str(NetOpisaniya)),
     Fayl |-> path.base]

parse_epub_metadata(path, doc) ==
    IF EpubRaises(doc) THEN <<>> ELSE <<EpubRecord(path, doc)>>

EpubCoversAfter(path, doc, dir) ==
    IF EpubRaises(doc) THEN dir
    ELSE WriteAll(OpenWb(dir, CoverPath(path)), CoverPath(path),
                  doc.items[EpubCoverIndex(doc.items, 1)].content)

-----------------------------------------------------------------------------
(* The documents the parsers are given *)

SeqsUpTo(S, n) == UNION {[1..k -> S] : k \in 0..n}

Dune == <<"D", "u", "n", "e">>
Frank == <<"F", "r", "a", "n", "k">>
Herbert == <<"H", "e", "r", "b", "e", "r", "t">>
Desert == <<"A", " ", "d", "e", "s", "e", "r", "t">>
SciFi == <<"s", "f">>
Classic == <<"c", "l">>

NoSequence == [present |-> FALSE, name |-> None, number |-> None]
NoAnnotation == [present |-> FALSE, text |-> <<>>]
Annotation(text) == [present |-> TRUE, text |-> text]

Fb2Titles == {NoElement, Element(None), Element(Str(<<" ">>)), Element(Str(Dune))}
Fb2AuthorNodes ==
    [first : {NoElement, Element(None), Element(Str(Frank))},
     last : {NoElement, Element(Str(Herbert))}]
Fb2Sequences ==
    {NoSequence} \cup
    [present : {TRUE},
     name : {None, Str(<<>>), Str(<<" ">>), Str(Dune)},
     number : {None, Str(<<"3">>)}]
Fb2Genres == {<<>>, <<None>>, <<Str(SciFi), Str(Classic)>>}
Fb2Annotations ==
    {NoAnnotation, Annotation(<<>>), Annotation(<<" ">>), Annotation(Desert)}

Payloads == {None} \cup {Str(s) : s \in SeqsUpTo({"A", "=", "!"}, MaxPayload)}
BinaryIds ==
    {None, Str(<<"i", "m", "g">>), Str(<<"C", "o", "v", "e", "r">>),
     Str(<<"c", "o", "v", "e", "r", ".", "j", "p", "g">>)}
GoodCover == [id |-> Str(CoverWord), text |-> Str(<<"B", "B", "B", "B">>)]
OtherBinary == [id |-> Str(<<"i", "m", "g">>), text |-> Str(<<"B", "B", "B", "B">>)]
Fb2Binaries ==
    {<<>>} \cup
    {pre \o <<[id |-> id, text |-> text]>> :
        pre \in {<<>>, <<OtherBinary>>, <<GoodCover>>}, id \in BinaryIds, text \in Payloads}

\* the document of the specification's end-to-end example
Fb2Dune ==
    [wellFormed |-> TRUE, hasTitleInfo |-> TRUE,
     bookTitle |-> Element(Str(Dune)),
     authors |-> <<[first |-> Element(Str(Frank)), last |-> Element(Str(Herbert))]>>,
     sequence |-> NoSequence,
     genres |-> <<Str(SciFi), Str(Classic)>>,
     annotation |-> Annotation(Desert),
     binaries |-> <<>>]

\* FB2 documents: every combination of title, sequence, genres and
\* annotation; every list of authors; every list of binaries; a file that is
\* not XML and one without title-info
Fb2Docs ==
    {[Fb2Dune EXCEPT !.bookTitle = t, !.sequence = q, !.genres = g, !.annotation = a] :
        t \in Fb2Titles, q \in Fb2Sequences, g \in Fb2Genres, a \in Fb2Annotations}
    \cup {[Fb2Dune EXCEPT !.authors = as] : as \in SeqsUpTo(Fb2AuthorNodes, MaxAuthors)}
    \cup {[Fb2Dune EXCEPT !.binaries = bs] : bs \in Fb2Binaries}
    \cup {[Fb2Dune EXCEPT !.wellFormed = FALSE], [Fb2Dune EXCEPT !.hasTitleInfo = FALSE]}

EpubItems ==
    {[isImage |-> TRUE, name |-> <<"c", "o", "v", "e", "r", ".", "j", "p", "g">>, content |-> <<"J">>],
     [isImage |-> TRUE, name |-> <<"p", "i", "c">>, content |-> <<"P">>],
     [isImage |-> FALSE, name |-> <<"c", "h", "1">>, content |-> <<"H">>],
     [isImage |-> FALSE, name |-> <<"C", "o", "v", "e", "r", ".", "x">>, content |-> <<"X">>]}

EpubDune ==
    [readable |-> TRUE,
     title |-> <<Str(Dune)>>,
     creator |-> <<Str(Frank \o <<" ">> \o Herbert)>>,
     series |-> <<>>,
     subject |-> <<Str(SciFi), Str(Classic)>>,
     description |-> <<Str(Desert)>>,
     items |-> <<[isImage |-> TRUE, name |-> <<"c", "o", "v", "e", "r", ".", "j", "p", "g">>,
                  content |-> <<"J">>]>>]

DcTexts == {<<>>, <<None>>, <<Str(<<" ">>)>>, <<Str(Dune)>>}

\* EPUB containers: every combination of title, series, subjects and
\* description; every list of creators; every list of items; an unreadable one
EpubDocs ==
    {[EpubDune EXCEPT !.title = t, !.series = q, !.subject = g, !.description = d] :
        t \in DcTexts, q \in {<<>>, <<Str(Dune)>>},
        g \in {<<>>, <<None>>, <<Str(SciFi), Str(Classic)>>}, d \in DcTexts}
    \cup {[EpubDune EXCEPT !.creator = cs] :
            cs \in SeqsUpTo({None, Str(<<>>), Str(Frank)}, MaxAuthors)}
    \cup {[EpubDune EXCEPT !.items = is] : is \in SeqsUpTo(EpubItems, MaxItems)}
    \cup {[EpubDune EXCEPT !.readable = FALSE]}

Path(dir, base) == [dir |-> dir, base |-> base]

ParseInputs ==
    {[kind |-> "fb2", path |-> Path("lib", b), doc |-> d] :
        b \in {"a.fb2", "b.fb2"}, d \in Fb2Docs}
    \cup {[kind |-> "epub", path |-> Path("lib", "a.epub"), doc |-> d] : d \in EpubDocs}

EmptyCovers == [n \in CoverNames |-> NoFile]

-----------------------------------------------------------------------------
(* One call of a parser on any document *)

InitParse ==
    /\ call \in ParseInputs
    /\ covers = EmptyCovers
    /\ before = EmptyCovers
    /\ result = <<>>
    /\ pc = "ready"
    /\ temps = {}
    /\ ntemp = 0
    /\ metadata = <<>>
    /\ nfiles = 0
    /\ exitReason = "none"
    /\ report = <<>>

CallParseEpub ==
    /\ pc = "ready"
    /\ call.kind = "epub"
    /\ result' = parse_epub_metadata(call.path, call.doc)
    /\ covers' = EpubCoversAfter(call.path, call.doc, covers)
    /\ before' = covers
    /\ pc' = "returned"
    /\ UNCHANGED <<temps, ntemp, call, metadata, nfiles, exitReason, report>>

CallParseFb2 ==
    /\ pc = "ready"
    /\ call.kind = "fb2"
    /\ result' = parse_fb2_metadata(call.path, call.doc)
    /\ covers' = Fb2CoversAfter(call.path, call.doc, covers)
    /\ before' = covers
    /\ pc' = "returned"
    /\ UNCHANGED <<temps, ntemp, call, metadata, nfiles, exitReason, report>>

NextParse == CallParseEpub \/ CallParseFb2

SpecParse == InitParse /\ [][NextParse]_vars

-----------------------------------------------------------------------------
(* extract_from_zip and process_zip.  The effects of a call are threaded    *)
(* through a record m = [covers, temps, ntemp]; a temporary directory is    *)
(* [id, file]: the directory mkdtemp made and the file written into it.     *)

Effects(c, t, n) == [covers |-> c, temps |-> t, ntemp |-> n]

\* extract_from_zip(zip_path, [ext]) from entry i on: for an entry with the
\* extension a directory is made and the file opened, then the entry is read;
\* a read that fails leaves the loop by the except clause, which returns []
\* and removes nothing
RECURSIVE ExtractEntries(_, _, _, _, _)
ExtractEntries(entries, i, ext, m, extracted) ==
    IF i > Len(entries) THEN [m |-> m, files |-> extracted]
    ELSE IF entries[i].ext # ext THEN ExtractEntries(entries, i + 1, ext, m, extracted)
    ELSE LET made == [m EXCEPT !.ntemp = m.ntemp + 1,
                               !.temps = m.temps \cup {[id |-> m.ntemp + 1,
                                                        file |-> entries[i].base]}]
         IN IF ~entries[i].ok
            THEN [m |-> made, files |-> <<>>]
            ELSE ExtractEntries(entries, i + 1, ext, made,
                                Append(extracted, [id |-> m.ntemp + 1, entry |-> entries[i]]))

extract_from_zip(archive, ext, m) ==
    IF ~archive.readable THEN [m |-> m, files |-> <<>>]
    ELSE ExtractEntries(archive.entries, 1, ext, m, <<>>)

\* the loop of process_zip over the extracted files from file i on: parse,
\* append the record if any, then remove the file and its directory
RECURSIVE ParseExtracted(_, _, _, _, _)
ParseExtracted(files, i, ext, m, list) ==
    IF i > Len(files) THEN [m |-> m, list |-> list]
    ELSE LET path == [dir |-> "tmp", base |-> files[i].entry.base]
             doc == files[i].entry.doc
             meta == IF ext = "epub" THEN parse_epub_metadata(path, doc)
                     ELSE parse_fb2_metadata(path, doc)
             dir == IF ext = "epub" THEN EpubCoversAfter(path, doc, m.covers)
                    ELSE Fb2CoversAfter(path, doc, m.covers)
             cleaned == m.temps \ {[id |-> files[i].id, file |-> files[i].entry.base]}
         IN ParseExtracted(files, i + 1, ext,
                           Effects(dir, cleaned, m.ntemp), list \o meta)

ProcessZipExt(archive, ext, m, list) ==
    LET x == extract_from_zip(archive, ext, m)
    IN ParseExtracted(x.files, 1, ext, x.m, list)

process_zip(archive, m) ==
    LET e == ProcessZipExt(archive, "epub", m, <<>>)
    IN ProcessZipExt(archive, "fb2", e.m, e.list)

\* process_file: by the extension of the path
process_file(f, m) ==
    CASE f.kind = "zip" -> process_zip(f.doc, m)
      [] f.kind = "epub" ->
            [m |-> Effects(EpubCoversAfter(f.path, f.doc, m.covers), m.temps, m.ntemp),
             list |-> parse_epub_metadata(f.path, f.doc)]
      [] f.kind = "fb2" ->
            [m |-> Effects(Fb2CoversAfter(f.path, f.doc, m.covers), m.temps, m.ntemp),
             list |-> parse_fb2_metadata(f.path, f.doc)]
      [] OTHER -> [m |-> m, list |-> <<>>]

-----------------------------------------------------------------------------
(* The files a run of main meets *)

CoverAAAA == [id |-> Str(CoverWord), text |-> Str(<<"A", "A", "A", "A">>)]
CoverNoText == [id |-> Str(CoverWord), text |-> None]

BatchFb2Docs ==
    {[Fb2Dune EXCEPT !.binaries = <<GoodCover>>],
     [Fb2Dune EXCEPT !.binaries = <<CoverAAAA>>],
     [Fb2Dune EXCEPT !.binaries = <<CoverNoText>>],
     [Fb2Dune EXCEPT !.hasTitleInfo = FALSE]}

BatchEpubDocs == {EpubDune, [EpubDune EXCEPT !.items = <<>>]}

ZipEntries ==
    {[ext |-> "epub", base |-> "a.epub", ok |-> TRUE, doc |-> EpubDune],
     [ext |-> "fb2", base |-> "a.fb2", ok |-> TRUE,
      doc |-> [Fb2Dune EXCEPT !.binaries = <<GoodCover>>]],
     [ext |-> "fb2", base |-> "b.fb2", ok |-> FALSE, doc |-> Fb2Dune]}

Archives ==
    {[readable |-> FALSE, entries |-> <<>>]}
    \cup [readable : {TRUE}, entries : SeqsUpTo(ZipEntries, MaxEntries)]

BatchFiles ==
    {[kind |-> "fb2", path |-> Path("lib", b), doc |-> d] :
        b \in {"a.fb2", "b.fb2"}, d \in BatchFb2Docs}
    \cup {[kind |-> "epub", path |-> Path("lib", "a.epub"), doc |-> d] : d \in BatchEpubDocs}
    \cup {[kind |-> "zip", path |-> Path("lib", "x.zip"), doc |-> a] : a \in Archives}
    \cup {[kind |-> "other", path |-> Path("lib", "r.txt"), doc |-> <<>>]}

\* the suffixes the directory loop of main passes to process_file
Supported(f) == f.kind \in {"epub", "fb2", "zip"}

-----------------------------------------------------------------------------
(* main *)

\* apply_filters with the filter of --filter-author: a record stays when the
\* lowered value is a substring of its lowered author
apply_filters(list, filterAuthor) ==
    IF ~Truthy(filterAuthor) THEN list
    ELSE SelectSeq(list, LAMBDA meta : Contains(Lower(meta.Avtor.s), Lower(filterAuthor.s)))

AuthorFilters == {None, Str(Frank), Str(<<"z">>)}

Init ==
    /\ covers = EmptyCovers
    /\ before = EmptyCovers
    /\ temps = {}
    /\ ntemp = 0
    /\ call = [kind |-> "other", path |-> Path("lib", "r.txt"), doc |-> <<>>]
    /\ result = <<>>
    /\ metadata = <<>>
    /\ nfiles = 0
    /\ pc = "start"
    /\ exitReason = "none"
    /\ report = <<>>

\* input_path.is_file(): metadata = process_file(input_path)
MainFile(f) ==
    /\ pc = "start"
    /\ LET r == process_file(f, Effects(covers, temps, ntemp))
       IN /\ covers' = r.m.covers
          /\ temps' = r.m.temps
          /\ ntemp' = r.m.ntemp
          /\ result' = r.list
          /\ metadata' = r.list
    /\ call' = f
    /\ before' = covers
    /\ nfiles' = 1
    /\ pc' = "collected"
    /\ UNCHANGED <<exitReason, report>>

\* the loop when a parse failure is not caught per file: it ends the run
MainDirStepAborts(f) ==
    /\ pc \in {"start", "collect"}
    /\ nfiles < MaxFiles
    /\ LET r == IF Supported(f) THEN process_file(f, Effects(covers, temps, ntemp))
                ELSE [m |-> Effects(covers, temps, ntemp), list |-> <<>>]
           failed == (f.kind = "epub" /\ EpubRaises(f.doc)) \/ (f.kind = "fb2" /\ Fb2Raises(f.doc))
       IN /\ covers' = r.m.covers
          /\ temps' = r.m.temps
          /\ ntemp' = r.m.ntemp
          /\ result' = r.list
          /\ metadata' = metadata \o r.list
          /\ pc' = IF failed THEN "failed" ELSE "collect"
          /\ exitReason' = IF failed THEN "parse_error" ELSE exitReason
    /\ call' = f
    /\ before' = covers
    /\ nfiles' = nfiles + 1
    /\ UNCHANGED report

\* input_path.is_dir(): one turn of the loop over rglob('*')
MainDirStep(f) ==
    /\ pc \in {"start", "collect"}
    /\ nfiles < MaxFiles
    /\ LET r == IF Supported(f) THEN process_file(f, Effects(covers, temps, ntemp))
                ELSE [m |-> Effects(covers, temps, ntemp), list |-> <<>>]
       IN /\ covers' = r.m.covers
          /\ temps' = r.m.temps
          /\ ntemp' = r.m.ntemp
          /\ result' = r.list
          /\ metadata' = metadata \o r.list
    /\ call' = f
    /\ before' = covers
    /\ nfiles' = nfiles + 1
    /\ pc' = "collect"
    /\ UNCHANGED <<exitReason, report>>

\* the loop over the directory ends
MainDirEnd ==
    /\ pc \in {"start", "collect"}
    /\ pc' = "collected"
    /\ UNCHANGED <<covers, before, temps, ntemp, call, result, metadata, nfiles, exitReason, report>>

\* the path is neither a file nor a directory: FileNotFoundError, exit 1
MainMissing ==
    /\ pc = "start"
    /\ pc' = "failed"
    /\ exitReason' = "not_found"
    /\ UNCHANGED <<covers, before, temps, ntemp, call, result, metadata, nfiles, report>>

\* after collecting: ValueError when nothing was collected, else filter, (no
\* --sort) and write the report; a failing write also exits 1
MainReport(filterAuthor, writable) ==
    /\ pc = "collected"
    /\ IF metadata = <<>>
       THEN pc' = "failed" /\ exitReason' = "no_books" /\ report' = report
       ELSE IF ~writable
            THEN pc' = "failed" /\ exitReason' = "io" /\ report' = report
            ELSE /\ pc' = "done"
                 /\ exitReason' = "none"
                 /\ report' = apply_filters(metadata, filterAuthor)
    /\ UNCHANGED <<covers, before, temps, ntemp, call, result, metadata, nfiles>>

Next ==
    \/ \E f \in BatchFiles : MainFile(f)
    \/ \E f \in BatchFiles : MainDirStep(f)
    \/ MainDirEnd
    \/ MainMissing
    \/ \E a \in AuthorFilters, w \in BOOLEAN : MainReport(a, w)

Spec == Init /\ [][Next]_vars

-----------------------------------------------------------------------------
(* Claims about one parser call (SpecParse) *)

Returned == pc = "returned"
ReturnedRecord == Returned /\ result # <<>>

NotBlank(v) == ~v.isNone /\ ~IsBlank(v.s)

\* C1: every record a parser returns has a title, an author and a description
\* that are not None and not empty or blank.
C1_RecordFieldsNeverBlank ==
    ReturnedRecord =>
        /\ NotBlank(result[1].Nazvanie)
        /\ NotBlank(result[1].Avtor)
        /\ NotBlank(result[1].Opisanie)

EpubQualifies(item) == item.isImage \/ Contains(Lower(item.name), CoverWord)

EpubNoCoverItem(doc) ==
    \A i \in 1..Len(doc.items) : ~EpubQualifies(doc.items[i])

\* C2: for a readable EPUB container with no image item and no item whose name
\* contains "cover", the parser returns a record whose cover is None and
\* writes no cover file.
C2_NoCoverItemGivesRecordWithoutCover ==
    (/\ Returned
     /\ call.kind = "epub"
     /\ call.doc.readable
     /\ ~HasNone(call.doc.creator)
     /\ ~HasNone(call.doc.subject)
     /\ EpubNoCoverItem(call.doc))
    => /\ result # <<>>
       /\ result[1].Oblozhka = None
       /\ covers = EmptyCovers

\* a payload that is not base64: no text, a character outside the alphabet,
\* or padding that does not complete the last group of four
PadCount(s) == Len(s) - Len(RStrip(s, {B64Pad}))
WellPadded(s) ==
    /\ Len(s) % 4 = 0
    /\ PadCount(s) <= 2
    /\ \A i \in 1..(Len(s) - PadCount(s)) : s[i] # B64Pad
CorruptPayload(v) ==
    \/ v.isNone
    \/ \E i \in 1..Len(v.s) : v.s[i] \notin B64Alphabet \cup {B64Pad}
    \/ ~WellPadded(v.s)

\* C4: when the first binary whose id starts with "cover" has a corrupt
\* base64 payload, the FB2 parser returns None.
C4_CorruptCoverPayloadFails ==
    (/\ Returned
     /\ call.kind = "fb2"
     /\ Fb2HasCover(call.doc)
     /\ CorruptPayload(call.doc.binaries[Fb2CoverIndex(call.doc.binaries, 1)].text))
    => result = <<>>

\* C5: every record of either parser has the key Fayl, the base name of the
\* path that was parsed.
C5_RecordHasSourceFilename ==
    ReturnedRecord =>
        /\ "Fayl" \in DOMAIN result[1]
        /\ result[1].Fayl = call.path.base

Fb2ReturnedRecord == ReturnedRecord /\ call.kind = "fb2"

\* C6: a sequence with a non-empty name N and a number K gives the series
\* "N (NoK)".
C6_SeriesIsNameAndNumber ==
    (/\ Fb2ReturnedRecord
     /\ call.doc.sequence.present
     /\ Truthy(call.doc.sequence.name)
     /\ ~call.doc.sequence.number.isNone)
    => result[1].Seriya =
          Str(call.doc.sequence.name.s \o <<" ", "(", No>>
              \o call.doc.sequence.number.s \o <<")">>)

\* a name part as the claim reads it: a missing or empty part gives nothing
NamePart(element) ==
    IF element.present /\ ~element.text.isNone THEN element.text.s ELSE <<>>
NameFragment(a) == Strip(NamePart(a.first) \o <<" ">> \o NamePart(a.last), Whitespace)

\* C7: with N >= 1 author nodes the author is the N fragments "first last",
\* trimmed, in document order, joined by ", "; with none it is the placeholder.
C7_AuthorIsJoinedFragments ==
    Fb2ReturnedRecord =>
        result[1].Avtor =
            IF call.doc.authors = <<>> THEN Str(Neizvesten)
            ELSE Str(Join(CommaSpace,
                          [i \in 1..Len(call.doc.authors) |-> NameFragment(call.doc.authors[i])]))

BareMarker(number) == <<"(", No>> \o AttrOr(number, <<>>) \o <<")">>

-----------------------------------------------------------------------------
(* Claims about a run of main (Spec) *)

\* the parse of a single book file fails
FileFails(f) ==
    \/ f.kind = "epub" /\ EpubRaises(f.doc)
    \/ f.kind = "fb2" /\ Fb2Raises(f.doc)

\* C3: in the directory loop a file whose parse fails adds no record and the
\* loop goes on; the run exits for want of books only when no record at all
\* was collected, and a run that collected records never exits for that.
C3_FailuresNeverAbortBatch ==
    /\ [][(pc' = "collect" /\ nfiles' = nfiles + 1 /\ FileFails(call'))
              => (metadata' = metadata /\ result' = <<>> /\ exitReason' = "none")]_vars
    /\ [][(pc \in {"start", "collect"} /\ pc' = "failed")
              => (exitReason' = "not_found" /\ pc = "start")]_vars
    /\ [][(pc = "collected" /\ pc' = "failed")
              => (exitReason' = "no_books" <=> metadata = <<>>)]_vars

C3_Witness ==
    /\ pc = "done"
    /\ nfiles = 2
    /\ FileFails(call)
    /\ result = <<>>
    /\ Len(metadata) = 1

CoverNameOf(base) == <<"covers", "cover_", base, ".jpg">>

\* the base names of the books one call of process_file parses
ParsedBases(f) ==
    IF f.kind = "zip"
    THEN {f.doc.entries[i].base : i \in 1..Len(f.doc.entries)}
    ELSE IF f.kind \in {"epub", "fb2"} THEN {f.path.base} ELSE {}

\* C9 as stated: a cover file, once written, never changes.
C9_CoversAppendOnly ==
    [][\A n \in CoverNames : covers[n].exists => covers'[n] = covers[n]]_vars

\* C9 as amended: a cover file, once written, is never removed, and it changes
\* only in a call that parses a book of the base name it is named after.
C9_OnlyOwnCoverOverwritten ==
    [][\A n \in CoverNames :
          /\ covers[n].exists => covers'[n].exists
          /\ covers'[n] # covers[n] => \E b \in ParsedBases(call') : n = CoverNameOf(b)]_vars

\* the cover of a.fb2 is overwritten by a second a.fb2 while that of a.epub stays
C9_Witness ==
    /\ pc = "collect"
    /\ nfiles = 2
    /\ call.kind = "fb2"
    /\ call.path.base = "a.fb2"
    /\ before[CoverNameOf("a.fb2")] = File(<<"B", "B", "B", "B">>)
    /\ covers[CoverNameOf("a.fb2")] = File(<<"A", "A", "A", "A">>)
    /\ before[CoverNameOf("a.epub")] = File(<<"J">>)
    /\ covers[CoverNameOf("a.epub")] = File(<<"J">>)

\* C10: when process_zip has returned, no temporary file or directory of the
\* archive is left.
C10_NoTempLeftAfterZip ==
    call.kind = "zip" => temps = {}

====
